---- MODULE Spec2Model ----
(***************************************************************************)
(* Model of the two-path PDF build of esphome_mdllm:                       *)
(*   build_all_md.py  main / run_pandoc   (primary path, then fallback)    *)
(*   md_to_pdf.py     md_to_pdf           (the tree-walking renderer)      *)
(*                                                                         *)
(* A Python str is modelled as the sequence of its characters, each        *)
(* character a one-character TLA+ string (the em dash U+2014 is written    *)
(* "U+2014").  A mistune node (a dict) is a record; `"k" in node` is       *)
(* "k" \in DOMAIN node, and reading a missing key raises KeyError.         *)
(***************************************************************************)
EXTENDS Integers, Sequences, FiniteSets, TLC

VARIABLES
    pc,         \* position of main(): the statement about to run
    pandocFound,\* result of shutil.which("pandoc"):  "unknown" | "yes" | "no"
    wkFound,    \* result of shutil.which("wkhtmltopdf"): "unknown" | "yes" | "no"
    attempts,   \* the subprocess.run calls made so far: <<[engine, code]>>
    ok,         \* the value run_pandoc returned to main
    calls,      \* number of times md_to_pdf has been entered
    phase,      \* renderer: "Idle" | "Initialized" | "Walking" | "Submitted" | "Failed"
    ast,        \* the document tree: markdown.parse(md_text)[0]
    i,          \* the walk index (0-based, as in the code)
    flow,       \* the output flow
    visited,    \* the indices the loop body has been entered with, in order
    built,      \* the flows handed to doc.build, in order
    reported    \* main printed "[OK] Wrote ... (pure Python)"

vars == <<pc, pandocFound, wkFound, attempts, ok, calls, phase, ast, i, flow,
          visited, built, reported>>

-----------------------------------------------------------------------------
(* Bounds *)

MaxBlocks == 2

-----------------------------------------------------------------------------
(* Python helpers *)

RECURSIVE join(_, _)
\* sep.join(parts)
join(sep, parts) ==
    IF Len(parts) = 0 THEN <<>>
    ELSE IF Len(parts) = 1 THEN parts[1]
    ELSE parts[1] \o sep \o join(sep, Tail(parts))

\* ch * n
repeat(ch, n) == [k \in 1..n |-> ch]

\* the literal in "—"*20
DashChar == "U+2014"

\* the count in "—"*20
SepWidth == 20

-----------------------------------------------------------------------------
(* inline(children): md_to_pdf.py 60-89 *)

RECURSIVE inline(_), inlineNode(_)

\* the else-arm of inline (85-88): unknown node kinds
inlineFallbackDropsChildren(node) == <<>>
inlineFallback(node) ==
    IF "children" \in DOMAIN node THEN inline(node.children) ELSE <<>>

\* what one loop iteration adds to `out`
inlineNode(node) ==
    LET t == node.type IN
    CASE t = "text"      -> node.raw
      [] t = "linebreak" -> <<"<", "b", "r", "/", ">">>
      [] t = "softbreak" -> <<" ">>
      [] t = "emphasis"  -> <<"<", "i", ">">> \o inline(node.children) \o <<"<", "/", "i", ">">>
      [] t = "strong"    -> <<"<", "b", ">">> \o inline(node.children) \o <<"<", "/", "b", ">">>
      [] t = "link"      ->
            LET label == inline(node.children)
                href  == node.attrs.url
            IN  IF href # <<>> THEN label \o <<" ", "(">> \o href \o <<")">> ELSE label
      [] t = "codespan"  ->
            <<"<", "f", "o", "n", "t", " ", "f", "a", "c", "e", "=", "'",
              "C", "o", "u", "r", "i", "e", "r", "'", ">">>
            \o node.raw \o <<"<", "/", "f", "o", "n", "t", ">">>
      [] t = "image"     ->
            LET alt == IF "alt" \in DOMAIN node.attrs THEN node.attrs.alt ELSE <<>>
                src == node.attrs.url
            IN  <<"[", "I", "m", "a", "g", "e", ":", " ">> \o alt
                \o <<"]", " ", "(">> \o src \o <<")">>
      [] OTHER           -> inlineFallback(node)

inline(children) ==
    IF Len(children) = 0 THEN <<>>
    ELSE inlineNode(Head(children)) \o inline(Tail(children))

RECURSIVE inlineRaises(_), inlineNodeRaises(_)

\* whether the loop iteration for `node` raises KeyError
inlineNodeRaises(node) ==
    LET t == node.type IN
    CASE t = "text"      -> "raw" \notin DOMAIN node
      [] t = "linebreak" -> FALSE
      [] t = "softbreak" -> FALSE
      [] t \in {"emphasis", "strong"} ->
            \/ "children" \notin DOMAIN node
            \/ inlineRaises(node.children)
      [] t = "link"      ->
            \/ "children" \notin DOMAIN node
            \/ inlineRaises(node.children)
            \/ "attrs" \notin DOMAIN node
            \/ "url" \notin DOMAIN node.attrs
      [] t = "codespan"  -> "raw" \notin DOMAIN node
      [] t = "image"     ->
            \/ "attrs" \notin DOMAIN node
            \/ "url" \notin DOMAIN node.attrs
      [] OTHER           ->
            /\ "children" \in DOMAIN node
            /\ inlineRaises(node.children)

inlineRaises(children) ==
    \E k \in 1..Len(children) : inlineNodeRaises(children[k])

-----------------------------------------------------------------------------
(* Layout instructions (reportlab flowables) and the emitters: 38-57 *)

Paragraph(text, style) == [kind |-> "Paragraph", text |-> text, style |-> style]
Preformatted(text, style) == [kind |-> "Preformatted", text |-> text, style |-> style]
ListItem(p) == [kind |-> "ListItem", body |-> p]
ListFlowable(lst, bulletType, start) ==
    [kind |-> "ListFlowable", items |-> lst, bulletType |-> bulletType, start |-> start]
Spacer(w, h) == [kind |-> "Spacer", width |-> w, height |-> h]
HRFlowable == [kind |-> "HRFlowable", width |-> "100%", thickness |-> "0.5"]

para(text) == <<Paragraph(text, "Body")>>

headingStyle(level) ==
    IF level = 1 THEN "H1" ELSE IF level = 2 THEN "H2" ELSE "H3"

heading(text, level) == <<Paragraph(text, headingStyle(level))>>

bulletType(ordered) == IF ordered THEN "1" ELSE "bullet"

bullet_list(items, ordered) ==
    <<ListFlowable([k \in 1..Len(items) |-> ListItem(Paragraph(items[k], "Body"))],
                   bulletType(ordered), "1")>>

codeblock(code) == <<Preformatted(code, "Code")>>

hrRuleOnly == <<HRFlowable>>
hr == <<Spacer(1, 6), HRFlowable, Spacer(1, 6)>>

-----------------------------------------------------------------------------
(* The arms of the block walk: 96-128 *)

\* block_quote (100-103): the text put between the quotation marks
blockQuoteText(node) ==
    IF "children" \in DOMAIN node /\ Len(node.children) > 0
    THEN inline(node.children[1].children)
    ELSE <<>>

LDQUO == <<"&", "l", "d", "q", "u", "o", ";">>
RDQUO == <<"&", "r", "d", "q", "u", "o", ";">>

blockQuote(node) == <<Paragraph(LDQUO \o blockQuoteText(node) \o RDQUO, "Body")>>

blockQuoteRaises(node) ==
    /\ "children" \in DOMAIN node
    /\ Len(node.children) > 0
    /\ \/ "children" \notin DOMAIN node.children[1]
       \/ inlineRaises(node.children[1].children)

\* list (104-115)
itemChildren(li) == IF "children" \in DOMAIN li THEN li.children ELSE <<>>

RECURSIVE chunksAllKinds(_)
chunksAllKinds(cs) ==
    IF Len(cs) = 0 THEN <<>>
    ELSE LET c == Head(cs) IN
         (IF c.type = "text" THEN <<c.text>>
          ELSE IF "children" \in DOMAIN c THEN <<inline(c.children)>>
          ELSE <<>>)
         \o chunksAllKinds(Tail(cs))

RECURSIVE chunks(_)
chunks(cs) ==
    IF Len(cs) = 0 THEN <<>>
    ELSE LET c == Head(cs) IN
         (IF c.type = "paragraph" THEN <<inline(c.children)>>
          ELSE IF c.type = "text" THEN <<c.text>>
          ELSE <<>>)
         \o chunks(Tail(cs))

listItems(node) ==
    [k \in 1..Len(node.children) |-> join(<<" ">>, chunks(itemChildren(node.children[k])))]

listOrdered(node) ==
    IF "ordered" \in DOMAIN node.attrs THEN node.attrs.ordered ELSE FALSE

list(node) == bullet_list(listItems(node), listOrdered(node))

listRaises(node) ==
    \/ "children" \notin DOMAIN node
    \/ \E k \in 1..Len(node.children) :
         LET cs == itemChildren(node.children[k]) IN
         \E j \in 1..Len(cs) :
            \/ cs[j].type = "paragraph"
               /\ ("children" \notin DOMAIN cs[j] \/ inlineRaises(cs[j].children))
            \/ cs[j].type = "text" /\ "text" \notin DOMAIN cs[j]
    \/ "attrs" \notin DOMAIN node

\* table (120-124)
CellSep == <<" ", "|", " ">>
NL == <<"\n">>

rowLine(row) ==
    join(CellSep, [k \in 1..Len(row.children) |-> inline(row.children[k].children)])

sepLineShort == repeat(DashChar, SepWidth - 1)
sepLine == repeat(DashChar, SepWidth)

tableText(node) ==
    LET header == <<rowLine(node.children[1])>>
        rows   == [k \in 1..(Len(node.children) - 1) |-> rowLine(node.children[k + 1])]
    IN  join(NL, header \o <<sepLine>> \o rows)

table(node) == para(tableText(node))

rowRaises(row) ==
    \/ "children" \notin DOMAIN row
    \/ \E k \in 1..Len(row.children) :
          \/ "children" \notin DOMAIN row.children[k]
          \/ inlineRaises(row.children[k].children)

tableRaises(node) ==
    \/ "children" \notin DOMAIN node
    \/ Len(node.children) = 0
    \/ \E k \in 1..Len(node.children) : rowRaises(node.children[k])

\* else-arm (125-128): unknown block kinds
unknownBlock(node) ==
    IF "children" \in DOMAIN node THEN para(inline(node.children)) ELSE <<>>

\* what the loop body appends to flow for `node`
emit(node) ==
    LET t == node.type IN
    CASE t = "heading"        -> heading(inline(node.children), node.attrs.level)
      [] t = "paragraph"      -> para(inline(node.children))
      [] t = "block_quote"    -> blockQuote(node)
      [] t = "list"           -> list(node)
      [] t = "thematic_break" -> hr
      [] t = "code"           -> codeblock(node.text)
      [] t = "table"          -> table(node)
      [] OTHER                -> unknownBlock(node)

\* whether the loop body raises (KeyError / IndexError) on `node`
blockRaises(node) ==
    LET t == node.type IN
    CASE t = "heading"        ->
            \/ "children" \notin DOMAIN node
            \/ inlineRaises(node.children)
            \/ "attrs" \notin DOMAIN node
            \/ "level" \notin DOMAIN node.attrs
      [] t = "paragraph"      ->
            \/ "children" \notin DOMAIN node
            \/ inlineRaises(node.children)
      [] t = "block_quote"    -> blockQuoteRaises(node)
      [] t = "list"           -> listRaises(node)
      [] t = "thematic_break" -> FALSE
      [] t = "code"           -> "text" \notin DOMAIN node
      [] t = "table"          -> tableRaises(node)
      [] OTHER                -> "children" \in DOMAIN node /\ inlineRaises(node.children)

-----------------------------------------------------------------------------
(* Document trees: the node dicts md_to_pdf reads *)

Text(s)        == [type |-> "text", raw |-> s]
LineBreak      == [type |-> "linebreak"]
SoftBreak      == [type |-> "softbreak"]
Emphasis(cs)   == [type |-> "emphasis", children |-> cs]
Strong(cs)     == [type |-> "strong", children |-> cs]
Link(cs, url)  == [type |-> "link", children |-> cs, attrs |-> [url |-> url]]
CodeSpan(s)    == [type |-> "codespan", raw |-> s]
Image(alt, u)  == [type |-> "image", attrs |-> [alt |-> alt, url |-> u]]
ImageNoAlt(u)  == [type |-> "image", attrs |-> [url |-> u]]

Heading(cs, n)    == [type |-> "heading", children |-> cs, attrs |-> [level |-> n]]
Para(cs)          == [type |-> "paragraph", children |-> cs]
BlockQuote(bs)    == [type |-> "block_quote", children |-> bs]
ListItemNode(cs)  == [type |-> "list_item", children |-> cs]
ListNode(its, o)  == [type |-> "list", children |-> its, attrs |-> [ordered |-> o]]
ThematicBreak     == [type |-> "thematic_break"]
Code(s)           == [type |-> "code", text |-> s]
Cell(cs)          == [type |-> "table_cell", children |-> cs]
Row(cells)        == [type |-> "table_row", children |-> cells]
Table(rows)       == [type |-> "table", children |-> rows]

\* the strings of the examples
sA   == <<"A">>
sB   == <<"B">>
s1   == <<"1">>
s2   == <<"2">>
sX   == <<"x">>
sFoo == <<"f", "o", "o">>
sBar == <<"b", "a", "r">>
sBaz == <<"b", "a", "z">>
sUrl == <<"h", ":", "/", "u">>
sP1  == <<"p", "1">>
sP2  == <<"q", "2">>
sP3  == <<"r", "3">>

\* inline nodes of kinds inline() has no arm for
UnknownInlineWrap(cs) == [type |-> "strikethrough", children |-> cs]
UnknownInlineLeaf     == [type |-> "inline_html", raw |-> sX]

\* well-formed top-level blocks of the recognized kinds
GoodBlocks ==
    { Heading(<<Text(sA)>>, 1),
      Heading(<<Emphasis(<<Strong(<<Text(sX)>>)>>)>>, 5),
      Para(<<Text(sFoo)>>),
      Para(<<Text(sA), SoftBreak, Link(<<Strong(<<Text(sB)>>)>>, sUrl), LineBreak,
             Link(<<Text(sB)>>, <<>>), CodeSpan(sX), Image(sA, sUrl), ImageNoAlt(sUrl),
             UnknownInlineWrap(<<Text(s1), UnknownInlineLeaf, Emphasis(<<Text(s2)>>)>>),
             UnknownInlineLeaf>>),
      BlockQuote(<<Para(<<Text(sP1)>>), Para(<<Text(sP2)>>), Para(<<Text(sP3)>>)>>),
      BlockQuote(<<>>),
      [type |-> "block_quote"],
      [type |-> "list",
       children |-> <<ListItemNode(<<Para(<<Text(sFoo)>>)>>),
                      ListItemNode(<<Para(<<Text(sBar)>>)>>)>>,
       attrs |-> [tight |-> TRUE]],
      ListNode(<<ListItemNode(<<Para(<<Text(sFoo)>>),
                                [type |-> "text", text |-> sBar],
                                ListNode(<<ListItemNode(<<Para(<<Text(sBaz)>>)>>)>>, FALSE),
                                Para(<<Emphasis(<<Text(sX)>>)>>)>>),
                 [type |-> "list_item"],
                 ListItemNode(<<[type |-> "block_text", children |-> <<Text(sBaz)>>]>>)>>,
               TRUE),
      ThematicBreak,
      Code(sFoo),
      Table(<<Row(<<Cell(<<Text(sA)>>), Cell(<<Text(sB)>>)>>),
              Row(<<Cell(<<Text(s1)>>), Cell(<<Text(s2)>>)>>)>>),
      Table(<<Row(<<Cell(<<Text(sA)>>)>>)>>),
      Table(<<Row(<<Cell(<<Strong(<<Text(sA)>>)>>), Cell(<<>>)>>),
              Row(<<Cell(<<Text(s1)>>)>>),
              Row(<<Cell(<<Text(s2)>>), Cell(<<Text(sX)>>)>>)>>) }

\* a block-quote whose first child block carries no inline content ("> ---")
QuoteOfBreak == BlockQuote(<<ThematicBreak, Para(<<Text(sP2)>>)>>)

\* blocks of kinds the walk has no arm for
UnknownBlocks ==
    { [type |-> "blank_line"],
      [type |-> "block_text", children |-> <<Text(sFoo), UnknownInlineLeaf>>],
      [type |-> "footnotes", children |-> <<UnknownInlineWrap(<<Text(sBar)>>)>>] }

\* malformed nodes: a key the arm reads is missing
MalformedBlocks ==
    { [type |-> "paragraph"],
      Para(<<Text(sA), [type |-> "text"]>>) }

Blocks == GoodBlocks \cup {QuoteOfBreak} \cup UnknownBlocks \cup MalformedBlocks

Trees == UNION { [1..n -> Blocks] : n \in 0..MaxBlocks }

ExitCodes == {0, 1}

-----------------------------------------------------------------------------
(* build_all_md.py: main and run_pandoc *)

Init ==
    /\ pc = "write_markdown"
    /\ pandocFound = "unknown"
    /\ wkFound = "unknown"
    /\ attempts = <<>>
    /\ ok = FALSE
    /\ calls = 0
    /\ phase = "Idle"
    /\ ast = <<>>
    /\ i = 0
    /\ flow = <<>>
    /\ visited = <<>>
    /\ built = <<>>
    /\ reported = FALSE

renderer == <<phase, ast, i, flow, visited, built>>
primary  == <<pandocFound, wkFound, attempts, ok>>

\* main 149 / write_markdown 88-114: SystemExit when the source folder is missing
WriteMarkdown ==
    /\ pc = "write_markdown"
    /\ \E srcExists \in BOOLEAN :
          pc' = IF srcExists THEN "which_pandoc" ELSE "aborted"
    /\ UNCHANGED <<primary, calls, renderer, reported>>

\* run_pandoc 119-122
WhichPandoc ==
    /\ pc = "which_pandoc"
    /\ \E found \in BOOLEAN :
          /\ pandocFound' = IF found THEN "yes" ELSE "no"
          /\ pc' = IF found THEN "attempt1" ELSE "dispatch"
          /\ ok' = FALSE
    /\ UNCHANGED <<wkFound, attempts, calls, renderer, reported>>

\* subprocess.run(..., check=True) raises CalledProcessError iff the exit code is non-zero
succeeded(code) == code = 0

\* run_pandoc 125-132
Attempt1 ==
    /\ pc = "attempt1"
    /\ \E code \in ExitCodes :
          /\ attempts' = Append(attempts, [engine |-> "default", code |-> code])
          /\ IF succeeded(code)
             THEN ok' = TRUE /\ pc' = "dispatch"
             ELSE ok' = ok /\ pc' = "which_wk"
    /\ UNCHANGED <<pandocFound, wkFound, calls, renderer, reported>>

\* the guard of the second attempt (135)
secondAttemptAlways(found) == TRUE
secondAttempt(found) == found

\* run_pandoc 135, 145-146
WhichWk ==
    /\ pc = "which_wk"
    /\ \E found \in BOOLEAN :
          /\ wkFound' = IF found THEN "yes" ELSE "no"
          /\ IF secondAttempt(found)
             THEN ok' = ok /\ pc' = "attempt2"
             ELSE ok' = FALSE /\ pc' = "dispatch"
    /\ UNCHANGED <<pandocFound, attempts, calls, renderer, reported>>

\* run_pandoc 136-143
Attempt2 ==
    /\ pc = "attempt2"
    /\ \E code \in ExitCodes :
          /\ attempts' = Append(attempts, [engine |-> "wkhtmltopdf", code |-> code])
          /\ ok' = succeeded(code)
          /\ pc' = "dispatch"
    /\ UNCHANGED <<pandocFound, wkFound, calls, renderer, reported>>

\* main 155: if not ok
needFallbackAlways(b) == TRUE
needFallback(b) == ~b

\* main 152-155 with ok true: nothing more to do
MainDone ==
    /\ pc = "dispatch"
    /\ ~needFallback(ok)
    /\ pc' = "done"
    /\ UNCHANGED <<primary, calls, renderer, reported>>

\* main 155-158 calling md_to_pdf, and md_to_pdf 30-31 (style registry, doc template)
EnterMdToPdf ==
    /\ pc = "dispatch"
    /\ needFallback(ok)
    /\ calls' = calls + 1
    /\ phase' = "Initialized"
    /\ pc' = "fallback"
    /\ UNCHANGED <<primary, ast, i, flow, visited, built, reported>>

-----------------------------------------------------------------------------
(* md_to_pdf.py: md_to_pdf *)

\* md_to_pdf 32-36, 91: flow = [], the parse, i = 0
Parse ==
    /\ pc = "fallback"
    /\ phase = "Initialized"
    /\ flow' = <<>>
    /\ \E t \in Trees : ast' = t
    /\ i' = 0
    /\ phase' = "Walking"
    /\ UNCHANGED <<pc, primary, calls, visited, built, reported>>

\* the loop condition (92), negated
walkDoneEarly(k, tree) == k >= Len(tree) - 1
walkDone(k, tree) == ~(k < Len(tree))

\* i += 1 (129)
nextIndexSkip(k) == k + 2
nextIndex(k) == k + 1

\* where main is after an exception leaves md_to_pdf: nothing in main catches it
afterRaiseSwallowed == "returned"
afterRaise == "crashed"

\* md_to_pdf 92-129: one iteration of the loop
WalkStep ==
    /\ pc = "fallback"
    /\ phase = "Walking"
    /\ i < Len(ast)
    /\ LET node == ast[i + 1] IN
       /\ visited' = Append(visited, i)
       /\ IF blockRaises(node)
          THEN /\ phase' = "Failed"
               /\ pc' = afterRaise
               /\ UNCHANGED <<flow, i>>
          ELSE /\ flow' = flow \o emit(node)
               /\ i' = nextIndex(i)
               /\ UNCHANGED <<phase, pc>>
    /\ UNCHANGED <<primary, calls, ast, built, reported>>

\* md_to_pdf 131: doc.build(flow), then the return to main
Build ==
    /\ pc = "fallback"
    /\ phase = "Walking"
    /\ walkDone(i, ast)
    /\ built' = Append(built, flow)
    /\ phase' = "Submitted"
    /\ pc' = "returned"
    /\ UNCHANGED <<primary, calls, ast, i, flow, visited, reported>>

\* main 159
ReportOk ==
    /\ pc = "returned"
    /\ reported' = TRUE
    /\ pc' = "done"
    /\ UNCHANGED <<primary, calls, renderer>>

Next ==
    \/ WriteMarkdown
    \/ WhichPandoc
    \/ Attempt1
    \/ WhichWk
    \/ Attempt2
    \/ MainDone
    \/ EnterMdToPdf
    \/ Parse
    \/ WalkStep
    \/ Build
    \/ ReportOk

Spec == Init /\ [][Next]_vars

\* the program is one synchronous control flow: the statement at pc runs
FairSpec == Spec /\ WF_vars(Next)

-----------------------------------------------------------------------------
(* Vocabulary of the properties *)

RecognizedKinds ==
    {"heading", "paragraph", "block_quote", "list", "thematic_break", "code", "table"}

KnownInlineKinds ==
    {"text", "linebreak", "softbreak", "emphasis", "strong", "link", "codespan", "image"}

RECURSIVE ConcatAll(_)
ConcatAll(ss) == IF Len(ss) = 0 THEN <<>> ELSE Head(ss) \o ConcatAll(Tail(ss))

\* parts[1] sep parts[2] sep ... parts[n]
Joined(sep, parts) ==
    IF Len(parts) = 0 THEN <<>>
    ELSE parts[1] \o ConcatAll([k \in 1..(Len(parts) - 1) |-> sep \o parts[k + 1]])

\* run_pandoc has returned to main
PrimaryReturned == pc \in {"dispatch", "fallback", "returned", "done", "crashed"}

\* the external tool was absent, or every attempt made exited non-zero
PrimaryFailed ==
    \/ pandocFound = "no"
    \/ /\ pandocFound = "yes"
       /\ \A k \in 1..Len(attempts) : attempts[k].code # 0

\* the loop body is about to run on ast[i + 1]
AtBlock == pc = "fallback" /\ phase = "Walking" /\ i < Len(ast)

NumBreaks(n) == Cardinality({k \in 1..n : ast[k].type = "thematic_break"})

-----------------------------------------------------------------------------
(* C1 *)

\* C1: md_to_pdf is entered at most once; it is entered only after run_pandoc
\* returned with the tool absent or every attempt non-zero; once main is past
\* its `if not ok`, md_to_pdf has been entered exactly once iff the primary path
\* failed (never when it succeeded); and the run is aborted only by
\* write_markdown, never by a failure of the primary path.
C1_FallbackIffPrimaryFails ==
    /\ calls <= 1
    /\ calls = 1 => PrimaryReturned /\ PrimaryFailed /\ ~ok
    /\ pc \in {"fallback", "returned", "done", "crashed"} => (calls = 1 <=> PrimaryFailed)
    /\ pc = "aborted" => pandocFound = "unknown" /\ attempts = <<>>

C1_Witness ==
    /\ pc = "done"
    /\ calls = 1
    /\ Len(attempts) = 2
    /\ reported

-----------------------------------------------------------------------------
(* C2 *)

\* C2: the external tool is run at most twice; the first run uses the default
\* engine; a second run selects wkhtmltopdf and happens only after the first
\* exited non-zero with wkhtmltopdf found on the host; and run_pandoc returns
\* True exactly when one of the runs exited with code zero.
C2_PandocAttempts ==
    /\ Len(attempts) <= 2
    /\ Len(attempts) >= 1 => attempts[1].engine = "default" /\ pandocFound = "yes"
    /\ Len(attempts) = 2 =>
          /\ attempts[2].engine = "wkhtmltopdf"
          /\ attempts[1].code # 0
          /\ wkFound = "yes"
    /\ PrimaryReturned => (ok <=> \E k \in 1..Len(attempts) : attempts[k].code = 0)
    /\ PrimaryReturned /\ pandocFound = "yes" /\ attempts[1].code # 0 /\ wkFound = "yes"
          => Len(attempts) = 2

C2_Witness ==
    /\ pc = "dispatch"
    /\ Len(attempts) = 2
    /\ attempts[2].code = 0
    /\ ok

-----------------------------------------------------------------------------
(* C3 *)

PhaseMoves ==
    { <<"Idle", "Initialized">>, <<"Initialized", "Walking">>,
      <<"Walking", "Walking">>, <<"Walking", "Submitted">>,
      <<"Walking", "Failed">> }

\* C3: the renderer's phase only moves Initialized -> Walking -> Submitted (or
\* leaves Walking by the exception of a failed walk), never back; the flow is
\* handed to doc.build at most once, at the move to Submitted, when every
\* root-level block has been processed; and after that the flow, the phase and
\* the record of submissions no longer change.
C3_RendererPhases ==
    [][ /\ phase' # phase => <<phase, phase'>> \in PhaseMoves
        /\ built' # built =>
              /\ phase = "Walking" /\ phase' = "Submitted"
              /\ i = Len(ast)
              /\ Len(visited) = Len(ast)
              /\ built = <<>> /\ built' = <<flow>>
        /\ phase' = "Submitted" /\ phase # "Submitted" => built' # built
        /\ phase = "Submitted" => flow' = flow /\ built' = built /\ phase' = phase
      ]_vars

C3_Witness ==
    /\ phase = "Submitted"
    /\ Len(ast) = 2
    /\ built = <<flow>>
    /\ Len(flow) = 2

-----------------------------------------------------------------------------
(* C4 *)

\* C4: once the walk has raised, main is at its top level with the exception
\* (nothing caught it), no block was entered twice and md_to_pdf was not
\* entered again, nothing was handed to doc.build, and success is not reported.
C4_FailurePropagates ==
    phase = "Failed" =>
        /\ pc = "crashed"
        /\ calls = 1
        /\ \A j, k \in 1..Len(visited) : visited[j] = visited[k] => j = k
        /\ built = <<>>
        /\ ~reported

C4_Witness ==
    /\ phase = "Failed"
    /\ Len(ast) = 2
    /\ ast[2] = [type |-> "paragraph"]
    /\ Len(flow) = 1

-----------------------------------------------------------------------------
(* C5 *)

-----------------------------------------------------------------------------
(* C6 *)

\* the instructions of the first n blocks, in block order
FlowOf(n) == ConcatAll([k \in 1..n |-> emit(ast[k])])

\* C6: a walk that has started ends (submitted, or failed by an exception);
\* the loop body is entered with the indices 0, 1, 2, ... in that order, each
\* once, never past the last block, and with all of them when the flow is
\* submitted; every step leaves the flow as it was or appends to it; and the
\* flow is always the instructions of the processed blocks in block order.
C6_WalkTerminatesInOrder ==
    /\ (phase = "Walking") ~> (phase \in {"Submitted", "Failed"})
    /\ [](visited = [k \in 1..Len(visited) |-> k - 1])
    /\ [](phase = "Submitted" => Len(visited) = Len(ast) /\ i = Len(ast))
    /\ [](i <= Len(ast) /\ flow = FlowOf(i))
    /\ [][ /\ Len(flow') >= Len(flow)
           /\ SubSeq(flow', 1, Len(flow)) = flow
           /\ i' \in {i, i + 1}
           /\ visited' # visited => visited' = Append(visited, i)
         ]_vars

C6_Witness ==
    /\ phase = "Submitted"
    /\ visited = <<0, 1>>
    /\ ast[1].type = "list"
    /\ ast[2].type = "thematic_break"
    /\ Len(flow) = 4
    /\ flow[1].kind = "ListFlowable"

-----------------------------------------------------------------------------
(* C7 *)

RECURSIVE Erase(_)
\* the inline content with every node of an unknown kind replaced by its
\* children (by nothing when it has none), at every depth
Erase(cs) ==
    IF Len(cs) = 0 THEN <<>>
    ELSE LET n == Head(cs) IN
         (IF n.type \in KnownInlineKinds
          THEN IF "children" \in DOMAIN n
               THEN <<[n EXCEPT !.children = Erase(n.children)]>>
               ELSE <<n>>
          ELSE IF "children" \in DOMAIN n THEN Erase(n.children) ELSE <<>>)
         \o Erase(Tail(cs))

RECURSIVE HasUnknownInline(_)
HasUnknownInline(cs) ==
    \E k \in 1..Len(cs) :
        \/ cs[k].type \notin KnownInlineKinds
        \/ "children" \in DOMAIN cs[k] /\ HasUnknownInline(cs[k].children)

\* C7: the loop body on a block of an unknown kind does not raise and moves on
\* to the next block, appending one Body paragraph of its composed children
\* when it has children and nothing otherwise; and an inline node of an
\* unknown kind composes as its children would in its place (as nothing when
\* it has none), so a paragraph holding such nodes is emitted as the paragraph
\* without them would be, and the walk moves on.
C7_UnknownKindsDegrade ==
    [][ AtBlock =>
          LET node == ast[i + 1] IN
          /\ node.type \notin RecognizedKinds =>
                /\ phase' = "Walking" /\ pc' = "fallback" /\ i' = i + 1
                /\ flow' = IF "children" \in DOMAIN node
                           THEN Append(flow, Paragraph(inline(Erase(node.children)), "Body"))
                           ELSE flow
          /\ ( /\ node.type = "paragraph"
               /\ "children" \in DOMAIN node
               /\ HasUnknownInline(node.children) ) =>
                /\ phase' = "Walking" /\ pc' = "fallback" /\ i' = i + 1
                /\ flow' = flow \o emit(Para(Erase(node.children)))
      ]_vars

C7_Witness ==
    /\ phase = "Submitted"
    /\ Len(ast) = 2
    /\ ast[1] = [type |-> "blank_line"]
    /\ ast[2].type = "footnotes"
    /\ flow = <<Paragraph(sBar, "Body")>>

-----------------------------------------------------------------------------
(* C8 *)

\* the composed inline content of a block (empty when it carries none)
InlineContentOf(b) == IF "children" \in DOMAIN b THEN inline(b.children) ELSE <<>>

\* the text the block-quote rule puts between the quotation marks
QuoteText(node) ==
    IF "children" \in DOMAIN node /\ Len(node.children) > 0
    THEN InlineContentOf(node.children[1])
    ELSE <<>>

\* C8: for every block-quote the loop body appends exactly one Body paragraph
\* whose text is the composed inline content of the first child block only
\* (empty when there is no child) between &ldquo; and &rdquo;.
C8_BlockQuoteFirstChildOnly ==
    [][ (AtBlock /\ ast[i + 1].type = "block_quote") =>
            flow' = Append(flow, Paragraph(LDQUO \o QuoteText(ast[i + 1]) \o RDQUO, "Body"))
      ]_vars

-----------------------------------------------------------------------------
(* C9 *)

\* one table row as text: its composed cells joined with " | "
RowText(row) ==
    Joined(<<" ", "|", " ">>, [k \in 1..Len(row.children) |-> inline(row.children[k].children)])

\* header line, a line of `width` characters `dash`, then the body rows
TableTextWith(node, dash, width) ==
    LET rows == node.children IN
    RowText(rows[1]) \o <<"\n">> \o [k \in 1..width |-> dash]
    \o ConcatAll([k \in 1..(Len(rows) - 1) |-> <<"\n">> \o RowText(rows[k + 1])])

TableStepWith(dash) ==
    (AtBlock /\ ast[i + 1].type = "table") =>
        flow' = Append(flow, Paragraph(TableTextWith(ast[i + 1], dash, 20), "Body"))

\* C9 as stated: the separator line is 20 '-' (hyphen-minus) characters.
C9_TableSeparatorHyphens == [][TableStepWith("-")]_vars

\* C9 (amended): for a table the loop body appends a single Body paragraph
\* whose text is the header line, then a line of exactly 20 em dashes
\* (U+2014), then one line per later row in row order, joined by newlines,
\* each line being the row's composed cells joined with " | ".
C9_TableSeparatorEmDashes == [][TableStepWith("U+2014")]_vars

EmDashes20 ==
    << "U+2014", "U+2014", "U+2014", "U+2014", "U+2014",
       "U+2014", "U+2014", "U+2014", "U+2014", "U+2014",
       "U+2014", "U+2014", "U+2014", "U+2014", "U+2014",
       "U+2014", "U+2014", "U+2014", "U+2014", "U+2014" >>

C9_Witness ==
    /\ phase = "Submitted"
    /\ Len(ast) = 1
    /\ ast[1].type = "table"
    /\ built = << << Paragraph(<<"A", " ", "|", " ", "B", "\n">> \o EmDashes20
                               \o <<"\n", "1", " ", "|", " ", "2">>, "Body") >> >>

-----------------------------------------------------------------------------
(* C10 *)

\* the text one child of a list item contributes
ChildText(c) == IF c.type = "paragraph" THEN inline(c.children) ELSE c.text

\* the string of one list item
ItemText(li) ==
    LET cs   == IF "children" \in DOMAIN li THEN li.children ELSE <<>>
        kept == SelectSeq(cs, LAMBDA c : c.type \in {"paragraph", "text"})
    IN  Joined(<<" ">>, [k \in 1..Len(kept) |-> ChildText(kept[k])])

\* C10: for a list the loop body does not raise and appends exactly one list
\* instruction with one Body paragraph per list item, in item order, numbered
\* when the list's `ordered` attribute is true and bulleted when it is false
\* or absent; each item's string is the single-space join of the texts of its
\* paragraph and bare-text children in child order, other children adding
\* nothing.
C10_ListItems ==
    [][ (AtBlock /\ ast[i + 1].type = "list") =>
          LET node == ast[i + 1]
              n    == Len(node.children)
          IN  /\ phase' = "Walking" /\ i' = i + 1
              /\ Len(flow') = Len(flow) + 1
              /\ SubSeq(flow', 1, Len(flow)) = flow
              /\ LET L == flow'[Len(flow')] IN
                 /\ L.kind = "ListFlowable"
                 /\ L.bulletType =
                        IF "ordered" \in DOMAIN node.attrs /\ node.attrs.ordered
                        THEN "1" ELSE "bullet"
                 /\ Len(L.items) = n
                 /\ \A k \in 1..n :
                       L.items[k] = ListItem(Paragraph(ItemText(node.children[k]), "Body"))
      ]_vars

C10_Witness ==
    /\ phase = "Submitted"
    /\ Len(ast) = 2
    /\ ast[1].type = "list" /\ ast[2].type = "list"
    /\ "ordered" \notin DOMAIN ast[1].attrs
    /\ Len(ast[1].children) = 2 /\ Len(ast[2].children) = 3
    /\ flow[1].kind = "ListFlowable" /\ flow[1].bulletType = "bullet"
    /\ [k \in 1..2 |-> flow[1].items[k].body.text] = <<sFoo, sBar>>
    /\ flow[2].kind = "ListFlowable" /\ flow[2].bulletType = "1"
    /\ [k \in 1..3 |-> flow[2].items[k].body.text]
         = << sFoo \o <<" ">> \o sBar \o <<" ", "<", "i", ">", "x", "<", "/", "i", ">">>,
              <<>>, <<>> >>

====
